---- MODULE Spec2Model ----
(***************************************************************************)
(* minform.py: four terminal indicators used as context managers.          *)
(*   _CharacterIterator (Bouncer, Spinner) and Ellipsis are threads that   *)
(*   print a frame per loop iteration until __exit__ clears _run and joins *)
(*   them; ProgressBar is synchronous and redraws on update(k).            *)
(* Text is modelled as a sequence of one-character strings; the output     *)
(* stream (sys.stdout) is the sequence of the print calls made so far.     *)
(***************************************************************************)
EXTENDS Integers, Sequences, FiniteSets, TLC

(* ------------------------------ bounds --------------------------------- *)
MaxFrames == 5
MaxEnters == 2
MaxBarEnters == 1
MaxUpdates == 1
MaxN == 4
MaxSize == 2
MaxTotal == 40
MaxNestedFrames == 2

(* ------------------------------ text ----------------------------------- *)
CR == "\r"
NL == "\n"

Rep(c, k) == IF k > 0 THEN [j \in 1..k |-> c] ELSE << >>

Digit(d) == CASE d = 0 -> "0" [] d = 1 -> "1" [] d = 2 -> "2" [] d = 3 -> "3"
              [] d = 4 -> "4" [] d = 5 -> "5" [] d = 6 -> "6" [] d = 7 -> "7"
              [] d = 8 -> "8" [] d = 9 -> "9"

RECURSIVE NatStr(_)
NatStr(m) == IF m < 10 THEN << Digit(m) >> ELSE NatStr(m \div 10) \o << Digit(m % 10) >>

Abs(x) == IF x < 0 THEN -x ELSE x

\* str(int), as '{}'.format(k) renders it
IntStr(x) == IF x < 0 THEN << "-" >> \o NatStr(-x) ELSE NatStr(x)

\* int(x) of a quotient a/b: truncation toward zero (b # 0)
TruncDiv(a, b) == IF (a < 0) = (b < 0) THEN Abs(a) \div Abs(b) ELSE -(Abs(a) \div Abs(b))

(* --------------------------- the indicators ---------------------------- *)
BouncerChars == << ".", ":", "'", ":" >>
SpinnerChars == << "-", "\\", "|", "/" >>

Messages == { << >>, << "G", "o" >>, << "L", "o", "a", "d", "!" >> }

Animated == { "Bouncer", "Spinner", "Ellipsis" }

Insts == { 1 }

AnimatedObjs ==
    { [kind |-> kd, characters |-> ch, message |-> m, erase |-> e,
       n |-> 1, size |-> 0, percent |-> FALSE] :
        kd \in { "Bouncer" }, ch \in { BouncerChars }, m \in Messages, e \in BOOLEAN }
    \cup
    { [kind |-> kd, characters |-> ch, message |-> m, erase |-> e,
       n |-> 1, size |-> 0, percent |-> FALSE] :
        kd \in { "Spinner" }, ch \in { SpinnerChars }, m \in Messages, e \in BOOLEAN }
    \cup
    { [kind |-> kd, characters |-> ch, message |-> m, erase |-> e,
       n |-> 1, size |-> 0, percent |-> FALSE] :
        kd \in { "Ellipsis" }, ch \in { << >> }, m \in Messages, e \in BOOLEAN }

Load == << "L", "o", "a", "d" >>

BarMessages == { << >>, Load }

\* ProgressBar(4, "Load", size=4, percent=True)
LoadBar ==
    [kind |-> "ProgressBar", characters |-> << >>, message |-> Load, erase |-> FALSE,
     n |-> 4, size |-> 4, percent |-> TRUE]

ProgressBarObjs ==
    { [kind |-> "ProgressBar", characters |-> << >>, message |-> m, erase |-> FALSE,
       n |-> nn, size |-> sz, percent |-> p] :
        m \in BarMessages, nn \in (-1)..MaxN, sz \in 0..MaxSize, p \in BOOLEAN }
    \cup { LoadBar }

\* ProgressBar(n, size=1, percent=p) for two larger totals: MaxTotal and the
\* total eight below it (40 and the power of two 32)
TotalBars ==
    { [kind |-> "ProgressBar", characters |-> << >>, message |-> << >>, erase |-> FALSE,
       n |-> nn, size |-> 1, percent |-> p] :
        nn \in { MaxTotal - 8, MaxTotal }, p \in BOOLEAN }

\* the two indicators of a program that nests one with-scope in another:
\* Spinner("Go") and Ellipsis("", erase=True)
Pair == { 1, 2 }

NestedObjs ==
    { [kind |-> "Spinner", characters |-> SpinnerChars, message |-> << "G", "o" >>,
       erase |-> FALSE, n |-> 1, size |-> 0, percent |-> FALSE],
      [kind |-> "Ellipsis", characters |-> << >>, message |-> << >>,
       erase |-> TRUE, n |-> 1, size |-> 0, percent |-> FALSE] }

IsAnimated(o) == o.kind \in Animated

VARIABLES
    obj,        \* instance -> its constructor arguments (never reassigned)
    run,        \* instance -> self._run
    started,    \* instance -> the thread has been started (Thread.start succeeded)
    tpc,        \* instance -> position of the thread in run()
    idx,        \* instance -> the local i of run()
    out,        \* the writes made to stdout, in order
    stack,      \* the open with-scopes of the controlling thread, innermost last
    cpc,        \* position of the controlling thread: "body" or "join"
    exc,        \* the exception in flight in the controlling thread, or "none"
    excFrom,    \* the instance in whose with-body that exception was raised, or 0
    reached,    \* the last exception that left the outermost scope, or "none"
    enters,     \* number of __enter__ calls made
    updates,    \* number of update calls made by with-bodies
    exits,      \* instance -> number of __exit__ calls that have returned
    tasks,      \* instance -> number of threads created for it
    stopAt      \* instance -> where run() was and how many frames it had printed
                \* when __exit__ cleared _run (pc "none" before that)

vars == << obj, run, started, tpc, idx, out, stack, cpc, exc, excFrom, reached,
           enters, updates, exits, tasks, stopAt >>

Top == stack[Len(stack)]
Pop == SubSeq(stack, 1, Len(stack) - 1)

Write(i, op, arg, text) == [who |-> i, op |-> op, arg |-> arg, text |-> text]

\* the state once the indicators are constructed and no scope is entered
Constructed ==
    /\ run = [i \in DOMAIN obj |-> TRUE]
    /\ started = [i \in DOMAIN obj |-> FALSE]
    /\ tpc = [i \in DOMAIN obj |-> "new"]
    /\ idx = [i \in DOMAIN obj |-> 0]
    /\ out = << >>
    /\ stack = << >>
    /\ cpc = "body"
    /\ exc = "none"
    /\ excFrom = 0
    /\ reached = "none"
    /\ enters = 0
    /\ updates = 0
    /\ exits = [i \in DOMAIN obj |-> 0]
    /\ tasks = [i \in DOMAIN obj |-> 0]
    /\ stopAt = [i \in DOMAIN obj |-> [pc |-> "none", frames |-> 0]]

Init ==
    /\ obj \in [Insts -> AnimatedObjs \cup ProgressBarObjs]
    /\ Constructed

\* a program that uses one animated indicator
InitAnimated ==
    /\ obj \in [Insts -> AnimatedObjs]
    /\ Constructed

\* a program that uses two animated indicators
InitNested ==
    /\ obj \in [Pair -> NestedObjs]
    /\ Constructed

\* a program that uses one ProgressBar with a large total
InitTotals ==
    /\ obj \in [Insts -> TotalBars]
    /\ Constructed

(* ------------------------- rendered text ------------------------------- *)
\* an Ellipsis that counts to four dots
CycleLen_Five(o) == IF o.kind = "Ellipsis" THEN 5 ELSE Len(o.characters)

\* len(self._characters) for Bouncer and Spinner (line 66), the literal 4 of line 108
CycleLen(o) == IF o.kind = "Ellipsis" THEN 4 ELSE Len(o.characters)

\* a frame printed with the newline print appends by default
Frame_Newline(o, i) ==
    IF o.kind = "Ellipsis"
    THEN o.message \o Rep(".", i) \o Rep(" ", 3 - i) \o << NL >>
    ELSE << o.characters[i + 1], " " >> \o o.message \o << NL >>

\* the text one loop iteration of run() prints (lines 68 and 107)
Frame(o, i) ==
    IF o.kind = "Ellipsis"
    THEN o.message \o Rep(".", i) \o Rep(" ", 3 - i) \o << CR >>
    ELSE << o.characters[i + 1], " " >> \o o.message \o << CR >>

\* an Ellipsis.__exit__ copied from _CharacterIterator with its two blanks
Pad_Two(o) == 2

\* the number of blanks __exit__ appends (lines 60, 62 and 100, 102)
Pad(o) == IF o.kind = "Ellipsis" THEN 3 ELSE 2

\* an __exit__ that blanks only the width of the message
ExitText_NoPad(o) ==
    IF ~o.erase /\ o.message # << >>
    THEN o.message \o Rep(" ", IF o.kind = "Ellipsis" THEN 3 ELSE 2) \o << NL >>
    ELSE Rep(" ", Len(o.message)) \o << CR >>

\* the text __exit__ prints after the join (lines 59-62 and 99-102)
ExitText(o) ==
    IF ~o.erase /\ o.message # << >>
    THEN o.message \o Rep(" ", Pad(o)) \o << NL >>
    ELSE Rep(" ", Len(o.message) + Pad(o)) \o << CR >>

\* an __exit__ that ends with return True
ExitReturn_True == TRUE

\* bool() of what __exit__ returns: no return statement, so None
ExitReturn == FALSE

\* a filled computed with round() in place of int()
Filled_Round(o, k) == TruncDiv(2 * o.size * k + o.n, 2 * o.n)

\* filled = int(self._size*float(k)/self._n): the float quotient truncated
\* toward zero, exact while size*k stays below 2^53
Filled(o, k) == TruncDiv(o.size * k, o.n)

(* Python floats are IEEE doubles: a 53-bit significand m and an exponent e,  *)
(* the value m * 2^(e-52). The significand is kept here as five limbs, most  *)
(* significant first: the leading bit and four limbs of 13 bits, so that     *)
(* every intermediate number stays small. Valid for operands below 2^14.     *)
Limb == 2^13

FZero == [m |-> << 0, 0, 0, 0, 0 >>, e |-> 0]

\* the significand plus one unit in the last place
FInc(x) ==
    IF x.m[5] + 1 < Limb THEN [x EXCEPT !.m[5] = @ + 1]
    ELSE IF x.m[4] + 1 < Limb THEN [x EXCEPT !.m[5] = 0, !.m[4] = @ + 1]
    ELSE IF x.m[3] + 1 < Limb THEN [x EXCEPT !.m[5] = 0, !.m[4] = 0, !.m[3] = @ + 1]
    ELSE IF x.m[2] + 1 < Limb
         THEN [x EXCEPT !.m[5] = 0, !.m[4] = 0, !.m[3] = 0, !.m[2] = @ + 1]
    ELSE [m |-> << 1, 0, 0, 0, 0 >>, e |-> x.e + 1]

\* round to nearest, ties to even: guard is the first bit dropped, sticky
\* tells whether any later bit is set
FRound(x, guard, sticky) ==
    IF guard /\ (sticky \/ x.m[5] % 2 = 1) THEN FInc(x) ELSE x

\* the float a/b of two positive ints (k/self._n, line 138): long division
\* of the operands scaled so that the quotient lies in [1, 2)
FDiv(a, b) ==
    IF a = 0 THEN FZero
    ELSE
    LET e == CHOOSE x \in (-14)..14 :
                 IF x >= 0 THEN b * 2^x <= a /\ a < b * 2^(x + 1)
                 ELSE b <= a * 2^(-x) /\ a * 2^(-x) < 2 * b
        num == IF e >= 0 THEN a ELSE a * 2^(-e)
        den == IF e >= 0 THEN b * 2^e ELSE b
        r0 == num - den
        d1 == (r0 * Limb) \div den
        r1 == (r0 * Limb) % den
        d2 == (r1 * Limb) \div den
        r2 == (r1 * Limb) % den
        d3 == (r2 * Limb) \div den
        r3 == (r2 * Limb) % den
        d4 == (r3 * Limb) \div den
        r4 == (r3 * Limb) % den
    IN  FRound([m |-> << 1, d1, d2, d3, d4 >>, e |-> e],
               2 * r4 >= den, (2 * r4) % den # 0)

\* the float x * 100 (the '%' presentation type multiplies by 100): the
\* 60-bit product limb by limb, then rounded back to 53 bits
FMul100(x) ==
    IF x = FZero THEN FZero
    ELSE
    LET t4 == 100 * x.m[5]
        t3 == 100 * x.m[4] + t4 \div Limb
        t2 == 100 * x.m[3] + t3 \div Limb
        t1 == 100 * x.m[2] + t2 \div Limb
        t0 == 100 * x.m[1] + t1 \div Limb
        p4 == t4 % Limb
        p3 == t3 % Limb
        p2 == t2 % Limb
        p1 == t1 % Limb
        s == IF t0 >= 128 THEN 7 ELSE 6
        lo == 2^s
        hi == 2^(13 - s)
    IN  FRound([m |-> << 1,
                         (t0 % lo) * hi + p1 \div lo,
                         (p1 % lo) * hi + p2 \div lo,
                         (p2 % lo) * hi + p3 \div lo,
                         (p3 % lo) * hi + p4 \div lo >>,
                e |-> x.e + s],
               (p4 % lo) >= 2^(s - 1), (p4 % lo) % 2^(s - 1) # 0)

\* format(x, '.0f'): the exact value of the float rounded to a whole number,
\* ties to even (values below 2^13)
FRoundInt(x) ==
    IF x = FZero \/ x.e < -1 THEN 0
    ELSE IF x.e = -1
    THEN IF x.m[2] # 0 \/ x.m[3] # 0 \/ x.m[4] # 0 \/ x.m[5] # 0 THEN 1 ELSE 0
    ELSE
    LET whole == 2^x.e + x.m[2] \div 2^(13 - x.e)
        half == (x.m[2] \div 2^(12 - x.e)) % 2 = 1
        rest == x.m[2] % 2^(12 - x.e) # 0 \/ x.m[3] # 0 \/ x.m[4] # 0 \/ x.m[5] # 0
    IN  IF half /\ (rest \/ whole % 2 = 1) THEN whole + 1 ELSE whole

\* a percentage cut off like int(100*k/n)
PercentStr_Trunc(k, n) ==
    (IF (k < 0) # (n < 0) THEN << "-" >> ELSE << >>)
        \o NatStr((100 * Abs(k)) \div Abs(n)) \o << "%" >>

\* '{:.0%}'.format(k/self._n): the sign of the float k/n (0/n is -0.0 for
\* n < 0), then the float |k/n| * 100 formatted with no decimals
PercentStr(k, n) ==
    (IF (k < 0) # (n < 0) THEN << "-" >> ELSE << >>)
        \o NatStr(FRoundInt(FMul100(FDiv(Abs(k), Abs(n))))) \o << "%" >>

\* a suffix that shows what is left of n instead of what is done
Complete_Remaining(o, k) ==
    IF o.percent THEN PercentStr(o.n - k, o.n)
    ELSE IntStr(o.n - k) \o << "/" >> \o IntStr(o.n)

\* the suffix named complete in update (lines 137-140)
Complete(o, k) ==
    IF o.percent THEN PercentStr(k, o.n) ELSE IntStr(k) \o << "/" >> \o IntStr(o.n)

\* update raises ZeroDivisionError at line 135 before it prints
UpdateFaults(o, k) == o.n = 0

\* an update whose print lacks end='' and the carriage return
UpdateText_Newline(o, k) ==
    o.message \o (IF o.message # << >> THEN << " " >> ELSE << >>)
        \o << "[" >> \o Rep("#", Filled(o, k)) \o Rep("-", o.size - Filled(o, k))
        \o << "]", " ", "(" >> \o Complete(o, k) \o << ")", NL >>

\* the text update(k) prints (lines 142-151)
UpdateText(o, k) ==
    o.message \o (IF o.message # << >> THEN << " " >> ELSE << >>)
        \o << "[" >> \o Rep("#", Filled(o, k)) \o Rep("-", o.size - Filled(o, k))
        \o << "]", " ", "(" >> \o Complete(o, k) \o << ")", CR >>

\* an __exit__ that redraws the empty bar
ExitK_Zero(o) == 0

\* the k that __exit__ of ProgressBar passes to update (line 130)
ExitK(o) == o.n

(* ----------------------------- helpers --------------------------------- *)
\* the number of frames a thread may print: fewer when two threads interleave
FrameBound == IF Cardinality(DOMAIN obj) > 1 THEN MaxNestedFrames ELSE MaxFrames

Frames(i) == Cardinality({ j \in 1..Len(out) : out[j].who = i /\ out[j].op = "run" })

\* a join that does not wait for the thread
Join_NoWait(i) == TRUE

\* self.join() returns: the thread has left run()
Join(i) == tpc[i] = "done"

\* an exception raised by a statement of the innermost with-body
Raise(e) ==
    /\ exc' = e
    /\ excFrom' = IF stack = << >> THEN 0 ELSE Top

\* an __enter__ that sets _run before it starts the thread
AnimEnter_Restart(i) ==
    /\ cpc = "body" /\ exc = "none" /\ enters < MaxEnters
    /\ IsAnimated(obj[i])
    /\ enters' = enters + 1
    /\ run' = [run EXCEPT ![i] = TRUE]
    /\ IF started[i]
       THEN /\ Raise("RuntimeError")
            /\ UNCHANGED << started, tpc, idx, stack, tasks >>
       ELSE /\ started' = [started EXCEPT ![i] = TRUE]
            /\ tasks' = [tasks EXCEPT ![i] = @ + 1]
            /\ tpc' = [tpc EXCEPT ![i] = "loop"]
            /\ idx' = [idx EXCEPT ![i] = 0]
            /\ stack' = Append(stack, i)
            /\ UNCHANGED << exc, excFrom >>
    /\ UNCHANGED << stopAt, obj, out, cpc, reached, updates, exits >>

\* an __exit__ that returns at once when the body raised
AnimExitStop_SkipOnFault(i) ==
    /\ cpc = "body" /\ stack # << >> /\ Top = i
    /\ IsAnimated(obj[i])
    /\ IF exc # "none"
       THEN /\ stack' = Pop
            /\ exits' = [exits EXCEPT ![i] = @ + 1]
            /\ UNCHANGED << run, cpc, stopAt >>
       ELSE /\ run' = [run EXCEPT ![i] = FALSE]
            /\ cpc' = "join"
            /\ stopAt' = [stopAt EXCEPT ![i] = [pc |-> tpc[i], frames |-> Frames(i)]]
            /\ UNCHANGED << stack, exits >>
    /\ UNCHANGED << obj, started, tpc, idx, out, exc, excFrom, reached,
                    enters, updates, tasks >>

\* an __exit__ that clears _run and returns without joining the thread
AnimExitStop_Detach(i) ==
    /\ cpc = "body" /\ stack # << >> /\ Top = i
    /\ IsAnimated(obj[i])
    /\ run' = [run EXCEPT ![i] = FALSE]
    /\ stack' = Pop
    /\ exits' = [exits EXCEPT ![i] = @ + 1]
    /\ stopAt' = [stopAt EXCEPT ![i] = [pc |-> tpc[i], frames |-> Frames(i)]]
    /\ UNCHANGED << obj, started, tpc, idx, out, cpc, exc, excFrom, reached,
                    enters, updates, tasks >>

(* ------------------- _CharacterIterator and Ellipsis ------------------- *)
\* with x: calls x.__enter__(), which calls Thread.start(); a thread that was
\* started before raises RuntimeError and the with-body is not entered
AnimEnter(i) ==
    /\ cpc = "body" /\ exc = "none" /\ enters < MaxEnters
    /\ IsAnimated(obj[i])
    /\ enters' = enters + 1
    /\ IF started[i]
       THEN /\ Raise("RuntimeError")
            /\ UNCHANGED << started, tpc, idx, stack, tasks >>
       ELSE /\ started' = [started EXCEPT ![i] = TRUE]
            /\ tasks' = [tasks EXCEPT ![i] = @ + 1]
            /\ tpc' = [tpc EXCEPT ![i] = "loop"]
            /\ idx' = [idx EXCEPT ![i] = 0]
            /\ stack' = Append(stack, i)
            /\ UNCHANGED << exc, excFrom >>
    /\ UNCHANGED << stopAt, obj, run, out, cpc, reached, updates, exits >>

\* __exit__ up to the join: clears _run, then blocks in join()
AnimExitStop(i) ==
    /\ cpc = "body" /\ stack # << >> /\ Top = i
    /\ IsAnimated(obj[i])
    /\ run' = [run EXCEPT ![i] = FALSE]
    /\ cpc' = "join"
    /\ stopAt' = [stopAt EXCEPT ![i] = [pc |-> tpc[i], frames |-> Frames(i)]]
    /\ UNCHANGED << obj, started, tpc, idx, out, stack, exc, excFrom, reached,
                    enters, updates, exits, tasks >>

\* an __exit__ that prints the final text without joining the thread
AnimExitFinish_NoJoin(i) ==
    /\ cpc = "join" /\ stack # << >> /\ Top = i
    /\ out' = Append(out, Write(i, "__exit__", 0, ExitText(obj[i])))
    /\ stack' = Pop
    /\ cpc' = "body"
    /\ exits' = [exits EXCEPT ![i] = @ + 1]
    /\ UNCHANGED << stopAt, obj, run, started, tpc, idx, exc, excFrom, reached,
                    enters, updates, tasks >>

\* __exit__ from the join on: the join returns, the final text is printed and
\* the exception of the body, if any, goes on unless __exit__ returned true
AnimExitFinish(i) ==
    /\ cpc = "join" /\ stack # << >> /\ Top = i
    /\ Join(i)
    /\ out' = Append(out, Write(i, "__exit__", 0, ExitText(obj[i])))
    /\ stack' = Pop
    /\ cpc' = "body"
    /\ exits' = [exits EXCEPT ![i] = @ + 1]
    /\ exc' = IF ExitReturn THEN "none" ELSE exc
    /\ excFrom' = IF ExitReturn THEN 0 ELSE excFrom
    /\ UNCHANGED << stopAt, obj, run, started, tpc, idx, reached, enters, updates, tasks >>

\* a loop that never tests _run: while True
RunCheck_Forever(i) ==
    /\ tpc[i] = "loop"
    /\ Frames(i) < FrameBound
    /\ tpc' = [tpc EXCEPT ![i] = "write"]
    /\ UNCHANGED << stopAt, obj, run, started, idx, out, stack, cpc, exc, excFrom, reached,
                    enters, updates, exits, tasks >>

\* run(): the test of the while loop
RunCheck(i) ==
    /\ tpc[i] = "loop"
    /\ run[i] => Frames(i) < FrameBound
    /\ tpc' = [tpc EXCEPT ![i] = IF run[i] THEN "write" ELSE "done"]
    /\ UNCHANGED << stopAt, obj, run, started, idx, out, stack, cpc, exc, excFrom, reached,
                    enters, updates, exits, tasks >>

\* a loop that advances i by two
RunWrite_SkipOne(i) ==
    /\ tpc[i] = "write"
    /\ out' = Append(out, Write(i, "run", idx[i], Frame(obj[i], idx[i])))
    /\ idx' = [idx EXCEPT ![i] = (@ + 2) % CycleLen(obj[i])]
    /\ tpc' = [tpc EXCEPT ![i] = "sleep"]
    /\ UNCHANGED << stopAt, obj, run, started, stack, cpc, exc, excFrom, reached,
                    enters, updates, exits, tasks >>

\* run(): print the frame and advance i
RunWrite(i) ==
    /\ tpc[i] = "write"
    /\ out' = Append(out, Write(i, "run", idx[i], Frame(obj[i], idx[i])))
    /\ idx' = [idx EXCEPT ![i] = (@ + 1) % CycleLen(obj[i])]
    /\ tpc' = [tpc EXCEPT ![i] = "sleep"]
    /\ UNCHANGED << stopAt, obj, run, started, stack, cpc, exc, excFrom, reached,
                    enters, updates, exits, tasks >>

\* a loop that prints again after the sleep and tests _run only after that
RunSleep_ThenWrite(i) ==
    /\ tpc[i] = "sleep"
    /\ Frames(i) < FrameBound
    /\ tpc' = [tpc EXCEPT ![i] = "write"]
    /\ UNCHANGED << stopAt, obj, run, started, idx, out, stack, cpc, exc, excFrom, reached,
                    enters, updates, exits, tasks >>

\* a loop that clears _run itself after the sleep
RunSleep_ClearsRun(i) ==
    /\ tpc[i] = "sleep"
    /\ tpc' = [tpc EXCEPT ![i] = "loop"]
    /\ run' = [run EXCEPT ![i] = FALSE]
    /\ UNCHANGED << stopAt, obj, started, idx, out, stack, cpc, exc, excFrom, reached,
                    enters, updates, exits, tasks >>

\* run(): time.sleep returns
RunSleep(i) ==
    /\ tpc[i] = "sleep"
    /\ tpc' = [tpc EXCEPT ![i] = "loop"]
    /\ UNCHANGED << stopAt, obj, run, started, idx, out, stack, cpc, exc, excFrom, reached,
                    enters, updates, exits, tasks >>

(* ---------------------------- ProgressBar ------------------------------ *)
\* __enter__: update(0), return self
PBEnter(i) ==
    /\ cpc = "body" /\ exc = "none" /\ enters < MaxBarEnters
    /\ obj[i].kind = "ProgressBar"
    /\ enters' = enters + 1
    /\ IF UpdateFaults(obj[i], 0)
       THEN /\ Raise("ZeroDivisionError")
            /\ UNCHANGED << out, stack >>
       ELSE /\ out' = Append(out, Write(i, "update", 0, UpdateText(obj[i], 0)))
            /\ stack' = Append(stack, i)
            /\ UNCHANGED << exc, excFrom >>
    /\ UNCHANGED << stopAt, obj, run, started, tpc, idx, cpc, reached, updates, exits, tasks >>

\* pb.update(k) called by the with-body, for k from -1 to one past n
PBUpdate(i, k) ==
    /\ cpc = "body" /\ exc = "none" /\ updates < MaxUpdates
    /\ k <= obj[i].n + 1
    /\ obj[i].kind = "ProgressBar"
    /\ stack # << >> /\ Top = i
    /\ updates' = updates + 1
    /\ IF UpdateFaults(obj[i], k)
       THEN /\ Raise("ZeroDivisionError")
            /\ UNCHANGED out
       ELSE /\ out' = Append(out, Write(i, "update", k, UpdateText(obj[i], k)))
            /\ UNCHANGED << exc, excFrom >>
    /\ UNCHANGED << stopAt, obj, run, started, tpc, idx, stack, cpc, reached, enters, exits, tasks >>

\* __exit__: update(self._n), print('')
PBExit(i) ==
    /\ cpc = "body" /\ stack # << >> /\ Top = i
    /\ obj[i].kind = "ProgressBar"
    /\ stack' = Pop
    /\ exits' = [exits EXCEPT ![i] = @ + 1]
    /\ IF UpdateFaults(obj[i], ExitK(obj[i]))
       THEN /\ exc' = "ZeroDivisionError"
            /\ UNCHANGED << out, excFrom >>
       ELSE /\ out' = out \o << Write(i, "update", ExitK(obj[i]), UpdateText(obj[i], ExitK(obj[i]))),
                                Write(i, "__exit__", 0, << NL >>) >>
            /\ exc' = IF ExitReturn THEN "none" ELSE exc
            /\ excFrom' = IF ExitReturn THEN 0 ELSE excFrom
    /\ UNCHANGED << stopAt, obj, run, started, tpc, idx, cpc, reached, enters, updates, tasks >>

(* ------------------------- the with statement -------------------------- *)
\* a statement of the with-body raises
BodyFault ==
    /\ cpc = "body" /\ exc = "none" /\ stack # << >>
    /\ Raise("BodyFault")
    /\ UNCHANGED << stopAt, obj, run, started, tpc, idx, out, stack, cpc, reached,
                    enters, updates, exits, tasks >>

\* the exception leaves the outermost with statement and reaches the caller
Propagate ==
    /\ cpc = "body" /\ exc # "none" /\ stack = << >>
    /\ reached' = exc
    /\ exc' = "none"
    /\ excFrom' = 0
    /\ UNCHANGED << stopAt, obj, run, started, tpc, idx, out, stack, cpc,
                    enters, updates, exits, tasks >>

Next ==
    \/ \E i \in Insts : AnimEnter(i)
    \/ \E i \in Insts : AnimExitStop(i)
    \/ \E i \in Insts : AnimExitFinish(i)
    \/ \E i \in Insts : RunCheck(i)
    \/ \E i \in Insts : RunWrite(i)
    \/ \E i \in Insts : RunSleep(i)
    \/ \E i \in Insts : PBEnter(i)
    \/ \E i \in Insts, k \in (-1)..(MaxN + 1) : PBUpdate(i, k)
    \/ \E i \in Insts : PBExit(i)
    \/ BodyFault
    \/ Propagate

Spec == Init /\ [][Next]_vars

\* the steps of a program that only uses animated indicators
NextAnimated ==
    \/ \E i \in Insts : AnimEnter(i)
    \/ \E i \in Insts : AnimExitStop(i)
    \/ \E i \in Insts : AnimExitFinish(i)
    \/ \E i \in Insts : RunCheck(i)
    \/ \E i \in Insts : RunWrite(i)
    \/ \E i \in Insts : RunSleep(i)
    \/ BodyFault
    \/ Propagate

\* the scheduler runs a runnable thread, time.sleep returns, and join
\* returns once the thread has ended
Fairness ==
    \A i \in Insts :
        /\ WF_vars(RunCheck(i))
        /\ WF_vars(RunWrite(i))
        /\ WF_vars(RunSleep(i))
        /\ WF_vars(AnimExitFinish(i))

SpecFair == InitAnimated /\ [][NextAnimated]_vars /\ Fairness

\* the steps of a program that uses two animated indicators, one with-scope
\* possibly inside the other
NextNested ==
    \/ \E i \in Pair : AnimEnter(i)
    \/ \E i \in Pair : AnimExitStop(i)
    \/ \E i \in Pair : AnimExitFinish(i)
    \/ \E i \in Pair : RunCheck(i)
    \/ \E i \in Pair : RunWrite(i)
    \/ \E i \in Pair : RunSleep(i)
    \/ BodyFault
    \/ Propagate

SpecNested == InitNested /\ [][NextNested]_vars

\* the steps of a program that only uses a ProgressBar, with k from 0 to one
\* past the largest total
NextBar ==
    \/ \E i \in Insts : PBEnter(i)
    \/ \E i \in Insts, k \in 0..(MaxTotal + 1) : PBUpdate(i, k)
    \/ \E i \in Insts : PBExit(i)

SpecBar == InitTotals /\ [][NextBar]_vars

(* ------------------------------ claims --------------------------------- *)
Last(s) == s[Len(s)]
InScope(i) == \E j \in 1..Len(stack) : stack[j] = i
AnimInsts == { i \in DOMAIN obj : IsAnimated(obj[i]) }
PBInsts == { i \in DOMAIN obj : obj[i].kind = "ProgressBar" }
IsFrame(w, i) == w.who = i /\ w.op = "run"
IsExitWrite(w, i) == w.who = i /\ w.op = "__exit__"
IsUpdate(w, i) == w.who = i /\ w.op = "update"

\* C1: scope entry of an animated indicator creates exactly one thread; when
\* __exit__ has returned the thread has left run(), and no frame follows the
\* final write of __exit__ in the output stream.
C1_OneTaskJoinedBeforeExitReturns ==
    \A i \in AnimInsts :
        /\ tasks[i] <= 1
        /\ InScope(i) => tasks[i] = 1
        /\ exits[i] > 0 => tasks[i] = 1 /\ tpc[i] = "done"
        /\ \A a, b \in 1..Len(out) :
               IsExitWrite(out[a], i) /\ IsFrame(out[b], i) => b < a

C1_Witness ==
    \E i \in AnimInsts : exits[i] = 1 /\ Frames(i) >= 2 /\ tpc[i] = "done"

\* C2: when an exception raised in the with-body of an animated indicator is
\* about to leave its scope, __exit__ has cleared _run, the thread has ended
\* and the final text is the last write; the controller waits in join() only
\* after clearing _run, and the final text is written only after the thread ended.
C2_CleanupRunsWhenBodyFaults ==
    \A i \in AnimInsts :
        /\ exc # "none" /\ excFrom = i /\ ~InScope(i) =>
               /\ ~run[i]
               /\ tpc[i] = "done"
               /\ out # << >> /\ IsExitWrite(Last(out), i)
        /\ cpc = "join" /\ Top = i => ~run[i]
        /\ (\E a \in 1..Len(out) : IsExitWrite(out[a], i)) => ~run[i] /\ tpc[i] = "done"

C2_Witness ==
    \E i \in AnimInsts :
        /\ exc = "BodyFault" /\ excFrom = i /\ stack = << >>
        /\ Frames(i) >= 1 /\ IsExitWrite(Last(out), i)

\* C3: for all four indicators an exception in flight stays the same exception
\* while __exit__ runs and is cleared only by reaching the caller unchanged.
C3_FaultNeverSwallowed ==
    [][exc # "none" =>
          \/ exc' = exc
          \/ stack = << >> /\ exc' = "none" /\ reached' = exc]_vars

C3_Witness ==
    \E i \in Insts : reached = "BodyFault" /\ exits[i] >= 1 /\ exc = "none"

\* C4: for a ProgressBar with n > 0, every newline written by __exit__ directly
\* follows a render of update(n) whose bar is size '#' characters, whatever
\* update calls the body made and whether or not it raised; __exit__ writes one
\* such pair each time it returns.
BarStart(o) == Len(o.message) + (IF o.message # << >> THEN 1 ELSE 0) + 1

C4_ExitRendersFullBarThenNewline ==
    \A i \in PBInsts : obj[i].n > 0 =>
        /\ \A a \in 1..Len(out) : IsExitWrite(out[a], i) =>
               /\ out[a].text = << NL >>
               /\ a > 1
               /\ IsUpdate(out[a - 1], i)
               /\ out[a - 1].arg = obj[i].n
               /\ SubSeq(out[a - 1].text, BarStart(obj[i]), BarStart(obj[i]) + obj[i].size + 1)
                      = << "[" >> \o Rep("#", obj[i].size) \o << "]" >>
        /\ Cardinality({ a \in 1..Len(out) : IsExitWrite(out[a], i) }) = exits[i]
        /\ exits[i] > 0 /\ ~InScope(i) => IsExitWrite(Last(out), i)

C4_Witness ==
    \E i \in PBInsts :
        /\ obj[i].n = 3 /\ obj[i].size = 2 /\ exits[i] = 1
        /\ reached = "BodyFault"
        /\ \E a \in 1..Len(out) : IsUpdate(out[a], i) /\ out[a].arg = 1 /\ a = Len(out) - 2

\* C5: _run of an animated indicator never goes from false to true; it is true
\* until __exit__ begins and false once __exit__ has begun, also when the
\* instance is entered again after its exit.
C5_RunClearedOnceNeverSet ==
    /\ [](\A i \in AnimInsts :
            /\ exits[i] > 0 => ~run[i]
            /\ exits[i] = 0 /\ ~(cpc = "join" /\ InScope(i)) => run[i])
    /\ [][\A i \in AnimInsts : ~run[i] => ~run'[i]]_vars

C5_Witness ==
    \E i \in AnimInsts : exits[i] = 1 /\ reached = "RuntimeError" /\ ~run[i]

\* C6: with erase set or an empty message, the final write of __exit__ of an
\* animated indicator is blanks and then a carriage return, with no newline;
\* the blanks number len(message) + 2 (Bouncer, Spinner) or + 3 (Ellipsis).
C6_EraseWritesBlanksAndCR ==
    \A i \in AnimInsts : obj[i].erase \/ obj[i].message = << >> =>
        \A a \in 1..Len(out) : IsExitWrite(out[a], i) =>
            LET text == out[a].text
                w == Len(obj[i].message) + (IF obj[i].kind = "Ellipsis" THEN 3 ELSE 2)
            IN  /\ Len(text) = w + 1
                /\ \A p \in 1..w : text[p] = " "
                /\ text[w + 1] = CR
                /\ \A p \in 1..Len(text) : text[p] # NL

C6_Witness ==
    \E i \in AnimInsts :
        /\ obj[i].erase /\ obj[i].message = << "G", "o" >> /\ obj[i].kind = "Ellipsis"
        /\ exits[i] = 1 /\ Frames(i) >= 1 /\ IsExitWrite(Last(out), i)

\* C7 as stated: with erase false and a non-empty message, the final write of
\* __exit__ is the message directly followed by a newline.
C7_Original_MessageThenNewline ==
    \A i \in AnimInsts : ~obj[i].erase /\ obj[i].message # << >> =>
        \A a \in 1..Len(out) : IsExitWrite(out[a], i) =>
            out[a].text = obj[i].message \o << NL >>

\* C7 amended: with erase false and a non-empty message, the final write of
\* __exit__ is the message, two blanks (Bouncer, Spinner) or three blanks
\* (Ellipsis), and a newline, and nothing else.
C7_MessageBlanksNewline ==
    \A i \in AnimInsts : ~obj[i].erase /\ obj[i].message # << >> =>
        \A a \in 1..Len(out) : IsExitWrite(out[a], i) =>
            LET text == out[a].text
                m == Len(obj[i].message)
                b == IF obj[i].kind = "Ellipsis" THEN 3 ELSE 2
            IN  /\ Len(text) = m + b + 1
                /\ SubSeq(text, 1, m) = obj[i].message
                /\ \A p \in (m + 1)..(m + b) : text[p] = " "
                /\ text[m + b + 1] = NL

C7_Witness ==
    \E i \in AnimInsts :
        /\ ~obj[i].erase /\ obj[i].message = << "L", "o", "a", "d", "!" >>
        /\ obj[i].kind = "Ellipsis"
        /\ exits[i] = 1 /\ Frames(i) >= 1 /\ IsExitWrite(Last(out), i)

\* the terminal: characters overwrite the cells of the current line from the
\* cursor on, a carriage return moves the cursor to column 0 and a newline
\* commits the line
RECURSIVE Flat(_)
Flat(ws) == IF ws = << >> THEN << >> ELSE Head(ws).text \o Flat(Tail(ws))

Max(S) == CHOOSE x \in S : \A y \in S : y <= x

Ctl(c) == c = CR \/ c = NL

\* the line and the column that character p of the stream cs is written to
LineOf(cs, p) == Cardinality({ q \in 1..(p - 1) : cs[q] = NL })
ColOf(cs, p) == p - 1 - Max({ 0 } \cup { q \in 1..(p - 1) : Ctl(cs[q]) })

\* the cells of line l after the whole stream: each cell shows the last
\* character written to it
LineText(cs, l) ==
    LET on == { p \in 1..Len(cs) : ~Ctl(cs[p]) /\ LineOf(cs, p) = l }
        width == Cardinality({ ColOf(cs, p) : p \in on })
    IN  [c \in 1..width |-> cs[Max({ p \in on : ColOf(cs, p) = c - 1 })]]

\* lines: the lines committed by a newline; cur: the line the cursor is on
Term(cs) ==
    LET nl == Cardinality({ p \in 1..Len(cs) : cs[p] = NL })
    IN  [lines |-> [l \in 1..nl |-> LineText(cs, l - 1)], cur |-> LineText(cs, nl)]

Screen == Term(Flat(out))

Cols(text) == Cardinality({ p \in 1..Len(text) : text[p] # CR /\ text[p] # NL })

GlyphChars == { ".", ":", "'", "-", "\\", "|", "/" }

\* C8: after __exit__ of an animated indicator the final write covers at least
\* the columns of every frame written, and the terminal line holds the message
\* (erase false, message non-empty) or blanks in its place, followed by blanks
\* only: no glyph and no dot is left; Bouncer("Go", erase=False) leaves the
\* committed line "Go" and two blanks.
C8_FinalWriteCoversFrames ==
    \A i \in AnimInsts : exits[i] > 0 =>
        \A scr \in { Screen } :
        LET o == obj[i]
            keep == ~o.erase /\ o.message # << >>
            line == IF keep THEN Last(scr.lines) ELSE scr.cur
        IN  /\ \A a, b \in 1..Len(out) :
                   IsFrame(out[a], i) /\ IsExitWrite(out[b], i) =>
                       Cols(out[a].text) <= Cols(out[b].text)
            /\ \A c \in 1..Len(line) : line[c] \notin GlyphChars
            /\ line = (IF keep THEN o.message ELSE Rep(" ", Len(o.message)))
                          \o Rep(" ", IF o.kind = "Ellipsis" THEN 3 ELSE 2)
            /\ keep => scr.cur = << >> /\ Len(scr.lines) = 1
            /\ o.kind = "Bouncer" /\ o.message = << "G", "o" >> /\ ~o.erase =>
                   scr.lines = << << "G", "o", " ", " " >> >>

C8_Witness ==
    \E i \in AnimInsts :
        /\ obj[i].kind = "Bouncer" /\ obj[i].message = << "G", "o" >> /\ ~obj[i].erase
        /\ exits[i] = 1 /\ Frames(i) >= 1
        /\ Screen.lines = << << "G", "o", " ", " " >> >>

\* the first position of character c in text, or 0
Pos(text, c) ==
    LET at == { p \in 1..Len(text) : text[p] = c }
    IN  IF at = { } THEN 0 ELSE CHOOSE p \in at : \A q \in at : p <= q

\* C9: for a ProgressBar with n > 0 and size >= 0, every update(k) with
\* 0 <= k <= n writes between the brackets filled '#' and then size - filled
\* '-', where filled = floor(size*k/n) and 0 <= filled <= size.
C9_FilledIsFloorWithinSize ==
    \A i \in PBInsts : obj[i].n > 0 /\ obj[i].size >= 0 =>
        \A a \in 1..Len(out) :
            IsUpdate(out[a], i) /\ 0 <= out[a].arg /\ out[a].arg <= obj[i].n =>
                \A lb \in { Pos(out[a].text, "[") }, rb \in { Pos(out[a].text, "]") } :
                    /\ 0 < lb /\ lb < rb
                    /\ \A bar \in { SubSeq(out[a].text, lb + 1, rb - 1) } :
                       \A f \in { Cardinality({ p \in 1..Len(bar) : bar[p] = "#" }) } :
                           /\ Len(bar) = obj[i].size
                           /\ bar = Rep("#", f) \o Rep("-", obj[i].size - f)
                           /\ f * obj[i].n <= obj[i].size * out[a].arg
                           /\ obj[i].size * out[a].arg < (f + 1) * obj[i].n
                           /\ 0 <= f /\ f <= obj[i].size

C9_Witness ==
    \E i \in PBInsts : \E a \in 1..Len(out) :
        /\ obj[i].n = 3 /\ obj[i].size = 2
        /\ IsUpdate(out[a], i) /\ out[a].arg = 2
        /\ SubSeq(out[a].text, BarStart(obj[i]), BarStart(obj[i]) + 3)
               = << "[", "#", "-", "]" >>

DigitVal(c) == IF \E d \in 0..9 : Digit(d) = c THEN CHOOSE d \in 0..9 : Digit(d) = c ELSE -1

IsNumeral(t) == t # << >> /\ \A p \in 1..Len(t) : DigitVal(t[p]) >= 0

RECURSIVE NatVal(_)
NatVal(t) == IF t = << >> THEN 0 ELSE 10 * NatVal(SubSeq(t, 1, Len(t) - 1)) + DigitVal(Last(t))

IsSigned(t) == IF t # << >> /\ t[1] = "-" THEN IsNumeral(Tail(t)) ELSE IsNumeral(t)

IntVal(t) == IF t[1] = "-" THEN -NatVal(Tail(t)) ELSE NatVal(t)

\* write w of update(k) on ProgressBar o is: pre, '[', a bar of '#' and '-',
\* ']', a blank, '(', the suffix, ')' and a carriage return, with no newline;
\* the suffix is the whole percent nearest to 100*k/n and '%', or k, '/' and n
UpdateFormat(o, w, pre) ==
    \A text \in { w.text } : \A rb \in { Pos(text, "]") } :
        /\ Len(text) >= Len(pre) + 6
        /\ SubSeq(text, 1, Len(pre)) = pre
        /\ text[Len(pre) + 1] = "["
        /\ rb > Len(pre) + 1
        /\ \A p \in (Len(pre) + 2)..(rb - 1) : text[p] \in { "#", "-" }
        /\ Len(text) >= rb + 4
        /\ text[rb + 1] = " " /\ text[rb + 2] = "("
        /\ text[Len(text) - 1] = ")" /\ text[Len(text)] = CR
        /\ \A p \in 1..Len(text) : text[p] # NL
        /\ \A suffix \in { SubSeq(text, rb + 3, Len(text) - 2) } :
               IF o.percent
               THEN /\ Last(suffix) = "%"
                    /\ \A pct \in { SubSeq(suffix, 1, Len(suffix) - 1) } :
                           /\ IsSigned(pct)
                           /\ 2 * Abs(100 * w.arg - IntVal(pct) * o.n) <= Abs(o.n)
               ELSE \A sl \in { Pos(suffix, "/") } :
                        /\ sl > 0
                        /\ IsSigned(SubSeq(suffix, 1, sl - 1))
                        /\ IsSigned(SubSeq(suffix, sl + 1, Len(suffix)))
                        /\ IntVal(SubSeq(suffix, 1, sl - 1)) = w.arg
                        /\ IntVal(SubSeq(suffix, sl + 1, Len(suffix))) = o.n

\* ProgressBar(4, "Load", size=4, percent=True): update(0), update(2), update(4)
Scenario(o, w) ==
    o.n = 4 /\ o.message = Load /\ o.size = 4 /\ o.percent =>
        /\ w.arg = 0 => w.text = Load \o << " ", "[", "-", "-", "-", "-", "]", " ", "(", "0", "%", ")", CR >>
        /\ w.arg = 2 => w.text = Load \o << " ", "[", "#", "#", "-", "-", "]", " ", "(", "5", "0", "%", ")", CR >>
        /\ w.arg = 4 => w.text = Load \o << " ", "[", "#", "#", "#", "#", "]", " ", "(", "1", "0", "0", "%", ")", CR >>

\* C10 as stated: every update(k) writes the message, one blank, '[', the bar,
\* ']', one blank, '(', the suffix, ')' and a carriage return, for every message
\* (stated here for the bars with n > 0).
C10_Original_AlwaysOneBlank ==
    \A i \in PBInsts : \A a \in 1..Len(out) : obj[i].n > 0 /\ IsUpdate(out[a], i) =>
        /\ UpdateFormat(obj[i], out[a], obj[i].message \o << " " >>)
        /\ Scenario(obj[i], out[a])

\* C10 amended: every update(k) writes the message, one blank when the message
\* is non-empty and none when it is empty, '[', the bar, ']', one blank, '(',
\* the suffix, ')' and a carriage return with no newline; the suffix is k/n as
\* a whole percent when percent is true and the counts k/n otherwise; the
\* three renders of ProgressBar(4, "Load", size=4, percent=True) are as listed.
C10_UpdateFormatBlankIfMessage ==
    \A i \in PBInsts : \A a \in 1..Len(out) : IsUpdate(out[a], i) =>
        /\ UpdateFormat(obj[i], out[a],
               IF obj[i].message # << >> THEN obj[i].message \o << " " >> ELSE << >>)
        /\ Scenario(obj[i], out[a])

C10_Witness ==
    \E i \in PBInsts :
        /\ obj[i].n = 4 /\ obj[i].message = Load /\ obj[i].size = 4 /\ obj[i].percent
        /\ Len(out) = 4
        /\ out[1].text = Load \o << " ", "[", "-", "-", "-", "-", "]", " ", "(", "0", "%", ")", CR >>
        /\ out[2].text = Load \o << " ", "[", "#", "#", "-", "-", "]", " ", "(", "5", "0", "%", ")", CR >>
        /\ out[3].text = Load \o << " ", "[", "#", "#", "#", "#", "]", " ", "(", "1", "0", "0", "%", ")", CR >>

\* the text between '(' and ')' of a render
Suffix(text) == SubSeq(text, Pos(text, "(") + 1, Len(text) - 2)

\* the non-negative rational a/b (b > 0) rounded to a whole number, ties to even
RoundHalfEven(a, b) ==
    LET q == a \div b
        r == a % b
    IN  IF 2 * r > b \/ (2 * r = b /\ q % 2 = 1) THEN q + 1 ELSE q

IsPowerOfTwo(n) == \E x \in 0..14 : n = 2^x

\* C11 as stated: in percent mode with n > 0 the suffix of update(n) is '100%',
\* that of update(0) is '0%', and for 0 < k < n it is 100*k/n rounded to the
\* nearest whole percent with every tie going to the even neighbour.
C11_Original_TiesToEven ==
    \A i \in PBInsts : \A a \in 1..Len(out) :
        /\ obj[i].percent /\ obj[i].n > 0 /\ IsUpdate(out[a], i)
        /\ 0 <= out[a].arg /\ out[a].arg <= obj[i].n
        => Suffix(out[a].text)
               = NatStr(RoundHalfEven(100 * out[a].arg, obj[i].n)) \o << "%" >>

\* C11 amended: in percent mode with n > 0 the suffix of update(n) is '100%',
\* that of update(0) is '0%', and for 0 < k < n it is a whole percent within
\* one half of 100*k/n; when 100*k/n lies halfway between two whole percents
\* the even one is printed if n is a power of two, and either one otherwise.
C11_PercentNearestTieEitherWay ==
    \A i \in PBInsts : \A a \in 1..Len(out) :
        obj[i].percent /\ obj[i].n > 0 /\ IsUpdate(out[a], i) =>
            \A k \in { out[a].arg } : \A n \in { obj[i].n } :
            \A suffix \in { Suffix(out[a].text) } :
                /\ k = n => suffix = << "1", "0", "0", "%" >>
                /\ k = 0 => suffix = << "0", "%" >>
                /\ 0 < k /\ k < n =>
                       /\ suffix # << >> /\ Last(suffix) = "%"
                       /\ \A pct \in { SubSeq(suffix, 1, Len(suffix) - 1) } :
                              /\ IsNumeral(pct)
                              /\ 2 * Abs(100 * k - NatVal(pct) * n) <= n
                              /\ IsPowerOfTwo(n) => NatVal(pct) = RoundHalfEven(100 * k, n)

\* update(23) of ProgressBar(40) has printed '57%' and the bar was closed
C11_Witness ==
    \E i \in PBInsts :
        /\ obj[i].n = 40 /\ obj[i].percent /\ exits[i] = 1
        /\ \E a \in 1..Len(out) :
               /\ IsUpdate(out[a], i) /\ out[a].arg = 23
               /\ Suffix(out[a].text) = << "5", "7", "%" >>

\* C12 as stated: a ProgressBar with a total <= 0 is constructed without a
\* fault; its first enter (or update) raises ZeroDivisionError, which is never
\* recovered, and the faulting call writes nothing, so such a bar never writes
\* and never has an open scope.
C12_NonPositiveTotalFaults ==
    \A i \in PBInsts : obj[i].n <= 0 =>
        /\ \A a \in 1..Len(out) : out[a].who # i
        /\ ~InScope(i)
        /\ enters > 0 => "ZeroDivisionError" \in { exc, reached }

\* __enter__ of ProgressBar(-1, size=2) has returned after printing a render
C12_Witness ==
    \E i \in PBInsts :
        /\ obj[i].n = -1 /\ obj[i].size = 2 /\ obj[i].message = << >> /\ obj[i].percent
        /\ InScope(i) /\ exc = "none" /\ reached = "none"
        /\ out = << Write(i, "update", 0,
                           << "[", "-", "-", "]", " ", "(", "-", "0", "%", ")", CR >>) >>

HasNewline(text) == \E p \in 1..Len(text) : text[p] = NL

\* every frame and every render written so far ends with a carriage return
\* and holds no newline
RedrawsEndWithCR ==
    \A a \in 1..Len(out) : out[a].op \in { "run", "update" } =>
        /\ out[a].text # << >>
        /\ Last(out[a].text) = CR
        /\ ~HasNewline(out[a].text)

\* C13 as stated: for each of the four indicators, any message and either
\* erase mode, every redraw before exit ends with a carriage return and holds
\* no newline, and the final write of scope exit ends with a newline.
C13_Original_ExitEndsWithNewline ==
    /\ RedrawsEndWithCR
    /\ \A a \in 1..Len(out) : out[a].op = "__exit__" => Last(out[a].text) = NL

\* C13 amended: every frame of an animated indicator and every render of a
\* ProgressBar ends with a carriage return and holds no newline. The final
\* write of scope exit ends with a newline, its only one, for a ProgressBar
\* and for an animated indicator with erase false and a non-empty message; for
\* an animated indicator with erase true or an empty message it ends with a
\* carriage return and holds no newline.
C13_ExitNewlineUnlessErased ==
    /\ RedrawsEndWithCR
    /\ \A i \in DOMAIN obj : \A a \in 1..Len(out) : IsExitWrite(out[a], i) =>
           \A text \in { out[a].text } :
               /\ text # << >>
               /\ IF IsAnimated(obj[i]) /\ (obj[i].erase \/ obj[i].message = << >>)
                  THEN Last(text) = CR /\ ~HasNewline(text)
                  ELSE /\ Last(text) = NL
                       /\ ~HasNewline(SubSeq(text, 1, Len(text) - 1))

\* a Spinner with a message and erase true has written frames and its final
\* blanks, which end with a carriage return
C13_Witness ==
    \E i \in AnimInsts :
        /\ obj[i].kind = "Spinner" /\ obj[i].erase /\ obj[i].message = << "G", "o" >>
        /\ exits[i] = 1 /\ Frames(i) >= 2
        /\ IsExitWrite(Last(out), i) /\ Last(Last(out).text) = CR

\* the number of frames instance i wrote before write a
FrameNo(a, i) == Cardinality({ b \in 1..(a - 1) : IsFrame(out[b], i) })

\* the frame set of a Bouncer ( . : ' : ) or a Spinner ( - \ | / )
FrameSet(o) ==
    IF o.kind = "Bouncer" THEN << ".", ":", "'", ":" >> ELSE << "-", "\\", "|", "/" >>

\* C14: the j-th frame (j = 0, 1, ...) of a Bouncer or Spinner is
\* frameSet[j mod 4], one blank, the message and a carriage return; the j-th
\* frame of an Ellipsis is the message, j mod 4 dots, 3 - (j mod 4) blanks and
\* a carriage return. The index i of run() is always within 0..3 and equals
\* the number of frames written mod 4, and all frames of one indicator have
\* the same length.
C14_FramesCycleFromZero ==
    \A i \in AnimInsts :
        /\ idx[i] \in 0..3
        /\ idx[i] = Frames(i) % 4
        /\ \A a \in 1..Len(out) : IsFrame(out[a], i) =>
               \A j \in { FrameNo(a, i) % 4 } :
                   out[a].text =
                       IF obj[i].kind = "Ellipsis"
                       THEN obj[i].message \o Rep(".", j) \o Rep(" ", 3 - j) \o << CR >>
                       ELSE << FrameSet(obj[i])[j + 1], " " >> \o obj[i].message \o << CR >>
        /\ \A a, b \in 1..Len(out) :
               IsFrame(out[a], i) /\ IsFrame(out[b], i) => Len(out[a].text) = Len(out[b].text)

\* a Bouncer has written five frames: the fifth is the first again
C14_Witness ==
    \E i \in AnimInsts :
        /\ obj[i].kind = "Bouncer" /\ obj[i].message = << "G", "o" >>
        /\ Len(out) = 5 /\ Frames(i) = 5 /\ idx[i] = 1
        /\ out[4].text = << ":", " ", "G", "o", CR >>
        /\ out[5].text = << ".", " ", "G", "o", CR >>

\* C15: __exit__ of an animated indicator writes its final text only while it
\* is past the join with the thread ended and _run false; in the output
\* stream every frame of the indicator precedes that final write, which is
\* the last write the indicator ever makes.
C15_FinalWriteAfterJoin ==
    /\ [](\A i \in AnimInsts : \A a \in 1..Len(out) : IsExitWrite(out[a], i) =>
             /\ tpc[i] = "done"
             /\ \A b \in 1..Len(out) : out[b].who = i /\ b # a =>
                    b < a /\ IsFrame(out[b], i))
    /\ [][\A i \in AnimInsts :
              Len(out') > Len(out) /\ IsExitWrite(Last(out'), i) =>
                  /\ cpc = "join" /\ ~run[i]
                  /\ tpc[i] = "done" /\ tpc'[i] = "done"]_vars

\* the stop came between the test of _run and the print: the frame printed
\* during the join precedes the final write
C15_Witness ==
    \E i \in AnimInsts :
        /\ stopAt[i].pc = "write" /\ stopAt[i].frames = 2
        /\ Len(out) = 4 /\ IsFrame(out[3], i) /\ IsExitWrite(out[4], i)
        /\ exits[i] = 1

\* C16: once __exit__ of an animated indicator has cleared _run, the thread
\* eventually leaves run() and __exit__ eventually returns; the controller
\* waits in join() only for a started thread whose _run is false.
C16_StopAlwaysSucceeds ==
    /\ \A i \in Insts : ~run[i] ~> tpc[i] = "done"
    /\ \A i \in Insts : (cpc = "join" /\ Top = i) ~> (cpc = "body" /\ exits[i] = 1)
    /\ [](cpc = "join" => ~run[Top] /\ started[Top] /\ tpc[Top] # "new")

\* __exit__ has returned after a stop requested while the thread slept
C16_Witness ==
    \E i \in AnimInsts :
        /\ stopAt[i].pc = "sleep" /\ stopAt[i].frames >= 1
        /\ tpc[i] = "done" /\ cpc = "body" /\ exits[i] = 1

\* the thread of instance i has been started and has not left run()
Active(i) == tpc[i] \in { "loop", "write", "sleep" }

\* C17 as stated: over all animated indicators of a program, nested scopes
\* included, at most one thread is active at any time.
C17_Original_AtMostOneActive ==
    Cardinality({ i \in AnimInsts : Active(i) }) <= 1

\* C17 amended: the thread of an animated indicator is active only while the
\* scope of its indicator is open, so at most as many threads are active as
\* scopes are open: at most one when no scope is nested in another, and two
\* when one scope is nested in another.
C17_ActiveOnlyInOpenScope ==
    /\ \A i \in AnimInsts : Active(i) => InScope(i)
    /\ Cardinality({ i \in AnimInsts : Active(i) }) <= Len(stack)
    /\ Len(stack) <= 1 => Cardinality({ i \in AnimInsts : Active(i) }) <= 1

\* inside two nested scopes both threads are active and both have printed
C17_Witness ==
    /\ stack = << 1, 2 >>
    /\ Active(1) /\ Active(2)
    /\ Frames(1) >= 1 /\ Frames(2) >= 1

\* C18: _run of an animated indicator is true from construction until the
\* thread is started, and changes only in the step by which the controlling
\* thread enters __exit__ (true to false, the thread not moving); every step
\* of run() (test, print and advance, sleep) leaves _run, the message and
\* erase as they are, and no step at all changes the message or erase.
C18_RunWrittenOnlyByController ==
    /\ [](\A i \in AnimInsts : tpc[i] = "new" => run[i])
    /\ [][\A i \in AnimInsts :
              Active(i) /\ tpc'[i] # tpc[i] => run' = run /\ obj' = obj]_vars
    /\ [][\A i \in AnimInsts :
              run'[i] # run[i] =>
                  /\ run[i] /\ ~run'[i]
                  /\ cpc = "body" /\ cpc' = "join" /\ Top = i
                  /\ tpc' = tpc /\ idx' = idx /\ out' = out]_vars
    /\ [][obj' = obj]_vars

\* the thread has printed and gone to sleep after the controller cleared _run
C18_Witness ==
    \E i \in AnimInsts :
        /\ ~run[i] /\ cpc = "join" /\ tpc[i] = "sleep"
        /\ stopAt[i].pc = "write" /\ Frames(i) = stopAt[i].frames + 1

\* the frames instance i has printed since __exit__ cleared its _run
FramesAfterStop(i) == Frames(i) - stopAt[i].frames

\* C19: after __exit__ has cleared _run the thread prints at most one more
\* frame: none when the flag was cleared while the thread slept or stood
\* before the test of _run, and exactly one, printed before the thread ends,
\* when it was cleared between the test and the print.
C19_AtMostOneFrameAfterStop ==
    \A i \in AnimInsts : stopAt[i].pc # "none" =>
        /\ ~run[i]
        /\ stopAt[i].pc \in { "loop", "write", "sleep" }
        /\ FramesAfterStop(i) \in { 0, 1 }
        /\ stopAt[i].pc \in { "sleep", "loop" } => FramesAfterStop(i) = 0
        /\ stopAt[i].pc = "write" =>
               FramesAfterStop(i) = (IF tpc[i] = "write" THEN 0 ELSE 1)

\* the thread has ended after the one frame that followed a stop requested
\* between its test and its print
C19_Witness ==
    \E i \in AnimInsts :
        /\ stopAt[i].pc = "write" /\ stopAt[i].frames = 3
        /\ tpc[i] = "done" /\ Frames(i) = 4

\* the update calls made so far on ProgressBar i have k values within 0..n
\* that never decrease
Monotone(i) ==
    /\ \A a \in 1..Len(out) : IsUpdate(out[a], i) =>
           0 <= out[a].arg /\ out[a].arg <= obj[i].n
    /\ \A a, b \in 1..Len(out) :
           IsUpdate(out[a], i) /\ IsUpdate(out[b], i) /\ a < b => out[a].arg <= out[b].arg

\* a render without its carriage return
Shown(text) == SubSeq(text, 1, Len(text) - 1)

\* the renders written to the line that write a ends: those up to a that
\* follow the last newline before a
OnLine(i, a) ==
    { b \in 1..a : IsUpdate(out[b], i) /\ \A c \in b..(a - 1) : ~IsExitWrite(out[c], i) }

\* what a line shows after the renders S, each written from column 0: every
\* cell holds the character of the last render that reaches it
Overlaid(S) ==
    LET width == Max({ 0 } \cup { Len(out[b].text) - 1 : b \in S })
    IN  [c \in 1..width |->
            out[Max({ b \in S : Len(out[b].text) - 1 >= c })].text[c]]

====
